---- MODULE Spec2Model ----
(***************************************************************************)
(* Line annotation of tokei: LanguageType::annotate_file,                  *)
(* annotate_from_slice and annotate_lines (src/language/annotate_file.rs). *)
(* A byte is a one-character string, a buffer or a delimiter is a sequence *)
(* of bytes, a HashMap<usize, LineType> is a function on a finite set of   *)
(* naturals.                                                               *)
(***************************************************************************)
EXTENDS Integers, Sequences, FiniteSets, TLC

VARIABLES
    path,         \* the path given to annotate_file
    text,         \* the decoded contents of the file
    lang,         \* self: the syntax table of the LanguageType
    config,       \* config.treat_doc_strings_as_comments
    io,           \* what opening and reading the file came to
    pc,           \* where the call is
    result,       \* what annotate_file returned
    mode,         \* the branch annotate_from_slice took
    lines,        \* the lines annotate_lines or the blank path iterates
    skippable,    \* the lines of skippable_text
    line_idx,     \* how many items of `lines` are consumed
    syntax,       \* the SyntaxCounter of annotate_lines
    annotations,  \* the map annotate_lines or the blank path fills
    pending,      \* enumerate() items of the prefix not yet mapped
    partials,     \* partial results of the parallel reduce
    ret           \* the map annotate_from_slice returned

vars == <<path, text, lang, config, io, pc, result, mode, lines, skippable,
          line_idx, syntax, annotations, pending, partials, ret>>

\* Longest enumerated buffer, in bytes.
MaxLen == 4

NL == "\n"
SP == " "

----------------------------------------------------------------------------
\* Bytes and slices

\* u8::is_whitespace of utils::ext, on the bytes the model uses.
is_whitespace(c) == c \in {SP, NL}

Min(S) == CHOOSE x \in S : \A y \in S : x <= y
Max(S) == CHOOSE x \in S : \A y \in S : y <= x

\* [u8]::starts_with
starts_with(window, tok) ==
    /\ Len(tok) <= Len(window)
    /\ SubSeq(window, 1, Len(tok)) = tok

is_empty(s) == Len(s) = 0

\* SliceExt::trim: the slice between the first and the last byte that is
\* not whitespace; empty when every byte is whitespace.
trim(s) ==
    LET keep == {i \in 1..Len(s) : ~is_whitespace(s[i])}
    IN  IF keep = {} THEN << >> ELSE SubSeq(s, Min(keep), Max(keep))

\* A matcher (AhoCorasick) is the set of its patterns; is_match: some
\* pattern occurs somewhere in the haystack.
is_match(pats, hay) ==
    \E i \in 1..Len(hay) : \E p \in pats :
        starts_with(SubSeq(hay, i, Len(hay)), p)

\* earliest_find: the match that ends first; its start as a 0-based offset,
\* -1 when nothing matches.
earliest_find(pats, hay) ==
    LET ends == {e \in 1..Len(hay) : \E p \in pats :
                    /\ Len(p) <= e
                    /\ SubSeq(hay, e - Len(p) + 1, e) = p}
    IN  IF ends = {} THEN -1
        ELSE LET e == Min(ends)
                 starts == {e - Len(p) : p \in {q \in pats :
                               /\ Len(q) <= e
                               /\ SubSeq(hay, e - Len(q) + 1, e) = q}}
             IN  Min(starts)

\* LineIter::new(b'\n', text): the lines of the buffer in order, each with
\* its terminator; a last line without terminator is a line; an empty
\* buffer has no line.
RECURSIVE LineIter(_)
LineIter(buf) ==
    IF buf = << >> THEN << >>
    ELSE LET nls == {i \in 1..Len(buf) : buf[i] = NL}
         IN  IF nls = {} THEN <<buf>>
             ELSE <<SubSeq(buf, 1, Min(nls))>>
                    \o LineIter(SubSeq(buf, Min(nls) + 1, Len(buf)))

----------------------------------------------------------------------------
\* HashMap<usize, LineType>

Blank == "Blank"
Code == "Code"
Comment == "Comment"
LineType == {Blank, Code, Comment}

EmptyMap == << >>

\* HashMap::insert
Insert(m, k, v) == [x \in DOMAIN m \cup {k} |-> IF x = k THEN v ELSE m[x]]

\* HashMap::extend: the entries of b replace those of a under the same key.
Extend(a, b) ==
    [x \in DOMAIN a \cup DOMAIN b |-> IF x \in DOMAIN b THEN b[x] ELSE a[x]]

----------------------------------------------------------------------------
\* Syntax tables (language::syntax::SharedMatchers, one per LanguageType)

Tok2(a, b) == <<a, b>>
Pair(start, end) == [start |-> start, end |-> end]

\* A language without comment syntax (is_blank), such as plain text.
Text ==
    [name |-> "Text", is_blank |-> TRUE, is_fortran |-> FALSE,
     plain_mode |-> TRUE, allows_nested |-> FALSE,
     line_comments |-> << >>, multi_line_comments |-> << >>,
     quotes |-> << >>, doc_quotes |-> << >>]

\* Only `#` line comments, no quotes: a plain-mode language.
Hash ==
    [name |-> "Hash", is_blank |-> FALSE, is_fortran |-> FALSE,
     plain_mode |-> TRUE, allows_nested |-> FALSE,
     line_comments |-> << <<"#">> >>, multi_line_comments |-> << >>,
     quotes |-> << >>, doc_quotes |-> << >>]

\* `//` line comments, `/* */` block comments, `"` strings.
CLike ==
    [name |-> "CLike", is_blank |-> FALSE, is_fortran |-> FALSE,
     plain_mode |-> FALSE, allows_nested |-> FALSE,
     line_comments |-> << Tok2("/", "/") >>,
     multi_line_comments |-> << Pair(Tok2("/", "*"), Tok2("*", "/")) >>,
     quotes |-> << Pair(<<"\"">>, <<"\"">>) >>, doc_quotes |-> << >>]

\* As CLike, with nestable block comments.
Nested ==
    [name |-> "Nested", is_blank |-> FALSE, is_fortran |-> FALSE,
     plain_mode |-> FALSE, allows_nested |-> TRUE,
     line_comments |-> << Tok2("/", "/") >>,
     multi_line_comments |-> << Pair(Tok2("/", "*"), Tok2("*", "/")) >>,
     quotes |-> << Pair(<<"\"">>, <<"\"">>) >>, doc_quotes |-> << >>]

\* `#` line comments, `"` strings, `"""` documentation strings.
DocLang ==
    [name |-> "DocLang", is_blank |-> FALSE, is_fortran |-> FALSE,
     plain_mode |-> FALSE, allows_nested |-> FALSE,
     line_comments |-> << <<"#">> >>, multi_line_comments |-> << >>,
     quotes |-> << Pair(<<"\"">>, <<"\"">>) >>,
     doc_quotes |-> << Pair(<<"\"", "\"", "\"">>, <<"\"", "\"", "\"">>) >>]

\* Column-sensitive: `!` is a comment only in the first column.
Fortran ==
    [name |-> "Fortran", is_blank |-> FALSE, is_fortran |-> TRUE,
     plain_mode |-> FALSE, allows_nested |-> FALSE,
     line_comments |-> << <<"!">> >>, multi_line_comments |-> << >>,
     quotes |-> << Pair(<<"\"">>, <<"\"">>) >>, doc_quotes |-> << >>]

Languages == {Text, Hash, CLike, Nested, DocLang, Fortran}

Range(s) == {s[i] : i \in 1..Len(s)}

\* shared.important_syntax: every delimiter that opens or closes a block
\* comment, a quote or a doc-quote.
important_syntax(L) ==
    {p.start : p \in Range(L.multi_line_comments) \cup Range(L.quotes)
                       \cup Range(L.doc_quotes)}
    \cup {p.end : p \in Range(L.multi_line_comments) \cup Range(L.quotes)
                       \cup Range(L.doc_quotes)}

\* shared.any_comments: every comment marker of the language.
any_comments(L) ==
    Range(L.line_comments)
    \cup {p.start : p \in Range(L.multi_line_comments)}
    \cup {p.end : p \in Range(L.multi_line_comments)}

----------------------------------------------------------------------------
\* Scan state (language::syntax::SyntaxCounter)

\* quote: None
NoQuote == << >>

\* SyntaxCounter::new
NewSyntax == [stack |-> << >>, quote |-> NoQuote, quote_is_doc_quote |-> FALSE]

Miss(syn) == [hit |-> FALSE, skip |-> 0, syn |-> syn]
Hit(n, syn) == [hit |-> TRUE, skip |-> n, syn |-> syn]

\* The pairs of a delimiter list whose start the window begins with, first
\* in list order.
FirstStart(pairs, window) ==
    LET idx == {i \in 1..Len(pairs) : starts_with(window, pairs[i].start)}
    IN  IF idx = {} THEN 0 ELSE Min(idx)

\* SyntaxCounter::is_plain_mode
is_plain_mode(L, syn) == L.plain_mode

\* SyntaxCounter::parse_end_of_quote: the open quote's closing delimiter
\* clears the quote. No input holds an escape byte, so no closing delimiter
\* is escaped.
parse_end_of_quote(L, syn, window) ==
    IF syn.quote # NoQuote /\ starts_with(window, syn.quote)
    THEN Hit(Len(syn.quote), [syn EXCEPT !.quote = NoQuote])
    ELSE Miss(syn)

\* SyntaxCounter::parse_end_of_multi_line: the closing delimiter on top of
\* the stack pops it.
parse_end_of_multi_line(L, syn, window) ==
    IF /\ syn.stack # << >>
       /\ starts_with(window, syn.stack[Len(syn.stack)])
    THEN Hit(Len(syn.stack[Len(syn.stack)]),
             [syn EXCEPT !.stack = SubSeq(syn.stack, 1, Len(syn.stack) - 1)])
    ELSE Miss(syn)

\* Faulty variant: a quote opener is taken inside a block comment too.
parse_quote_unguarded(L, syn, window) ==
    LET d == FirstStart(L.doc_quotes, window)
        q == FirstStart(L.quotes, window)
    IN  IF d # 0
        THEN Hit(Len(L.doc_quotes[d].start),
                 [syn EXCEPT !.quote = L.doc_quotes[d].end,
                             !.quote_is_doc_quote = TRUE])
        ELSE IF q # 0
        THEN Hit(Len(L.quotes[q].start),
                 [syn EXCEPT !.quote = L.quotes[q].end,
                             !.quote_is_doc_quote = FALSE])
        ELSE Miss(syn)

\* SyntaxCounter::parse_quote: outside a block comment, a doc-quote opener
\* (tried first) or a quote opener opens the quote and says which it is.
parse_quote(L, syn, window) ==
    IF syn.stack # << >> THEN Miss(syn)
    ELSE LET d == FirstStart(L.doc_quotes, window)
             q == FirstStart(L.quotes, window)
         IN  IF d # 0
             THEN Hit(Len(L.doc_quotes[d].start),
                      [syn EXCEPT !.quote = L.doc_quotes[d].end,
                                  !.quote_is_doc_quote = TRUE])
             ELSE IF q # 0
             THEN Hit(Len(L.quotes[q].start),
                      [syn EXCEPT !.quote = L.quotes[q].end,
                                  !.quote_is_doc_quote = FALSE])
             ELSE Miss(syn)

\* SyntaxCounter::parse_multi_line_comment: outside a quote, a block-comment
\* opener is consumed; its closer is pushed when no block is open or the
\* language nests.
parse_multi_line_comment(L, syn, window) ==
    IF syn.quote # NoQuote THEN Miss(syn)
    ELSE LET m == FirstStart(L.multi_line_comments, window)
         IN  IF m = 0 THEN Miss(syn)
             ELSE Hit(Len(L.multi_line_comments[m].start),
                      IF syn.stack = << >> \/ L.allows_nested
                      THEN [syn EXCEPT !.stack =
                               Append(@, L.multi_line_comments[m].end)]
                      ELSE syn)

\* SyntaxCounter::parse_line_comment
parse_line_comment(L, syn, window) ==
    /\ syn.quote = NoQuote
    /\ syn.stack = << >>
    /\ \E c \in Range(L.line_comments) : starts_with(window, c)

----------------------------------------------------------------------------
\* Config

None == "None"
SomeFalse == "Some(false)"
SomeTrue == "Some(true)"
Configs == {None, SomeFalse, SomeTrue}

\* Faulty variant: anything but Some(false) enables the option.
treat_doc_strings_unless_false(cfg) == cfg # SomeFalse

\* config.treat_doc_strings_as_comments == Some(true)
treat_doc_strings_as_comments(cfg) == cfg = SomeTrue

----------------------------------------------------------------------------
\* annotate_lines: one line

\* The line as scanned: verbatim for FORTRAN, trimmed otherwise.
ScanLine(L, raw) == IF L.is_fortran THEN raw ELSE trim(raw)

\* Faulty variant: the blank check without the trim.
IsBlankLine_untrimmed(line) == is_empty(line)

\* line.trim().is_empty()
IsBlankLine(line) == is_empty(trim(line))

\* line_comments.iter().any(|c| line.starts_with(c))
StartsWithLineComment(L, line) ==
    \E c \in Range(L.line_comments) : starts_with(line, c)

Step(syn, skip, ended, brk) ==
    [syn |-> syn, skip |-> skip, ended |-> ended, brk |-> brk]

\* Faulty variant: the closing delimiter of a block comment is never tried.
WindowStep_no_end_multi(L, syn, window) ==
    LET eq == parse_end_of_quote(L, syn, window)
        oq == parse_quote(L, syn, window)
        om == parse_multi_line_comment(L, syn, window)
    IN  IF eq.hit THEN Step(eq.syn, eq.skip, TRUE, FALSE)
        ELSE IF syn.quote # NoQuote THEN Step(syn, 1, FALSE, FALSE)
        ELSE IF oq.hit THEN Step(oq.syn, oq.skip, FALSE, FALSE)
        ELSE IF om.hit THEN Step(om.syn, om.skip, FALSE, FALSE)
        ELSE IF parse_line_comment(L, syn, window)
             THEN Step(syn, 1, TRUE, TRUE)
        ELSE Step(syn, 1, FALSE, FALSE)

\* Faulty variant: openers are tried inside an open quote too.
WindowStep_no_quote_continue(L, syn, window) ==
    LET eq == parse_end_of_quote(L, syn, window)
        em == parse_end_of_multi_line(L, syn, window)
        oq == parse_quote(L, syn, window)
        om == parse_multi_line_comment(L, syn, window)
    IN  IF eq.hit THEN Step(eq.syn, eq.skip, TRUE, FALSE)
        ELSE IF em.hit THEN Step(em.syn, em.skip, TRUE, FALSE)
        ELSE IF oq.hit THEN Step(oq.syn, oq.skip, FALSE, FALSE)
        ELSE IF om.hit THEN Step(om.syn, om.skip, FALSE, FALSE)
        ELSE IF parse_line_comment(L, syn, window)
             THEN Step(syn, 1, TRUE, TRUE)
        ELSE Step(syn, 1, FALSE, FALSE)

\* Faulty variant: a line comment does not leave the loop.
WindowStep_no_break(L, syn, window) ==
    LET eq == parse_end_of_quote(L, syn, window)
        em == parse_end_of_multi_line(L, syn, window)
        oq == parse_quote(L, syn, window)
        om == parse_multi_line_comment(L, syn, window)
    IN  IF eq.hit THEN Step(eq.syn, eq.skip, TRUE, FALSE)
        ELSE IF em.hit THEN Step(em.syn, em.skip, TRUE, FALSE)
        ELSE IF syn.quote # NoQuote THEN Step(syn, 1, FALSE, FALSE)
        ELSE IF oq.hit THEN Step(oq.syn, oq.skip, FALSE, FALSE)
        ELSE IF om.hit THEN Step(om.syn, om.skip, FALSE, FALSE)
        ELSE IF parse_line_comment(L, syn, window)
             THEN Step(syn, 1, TRUE, FALSE)
        ELSE Step(syn, 1, FALSE, FALSE)

\* One pass of the body of the 'window loop at a position that is not
\* skipped: the scan state it leaves, how many positions it moves on,
\* ended_with_comments, and whether it breaks out of the loop.
WindowStep(L, syn, window) ==
    LET eq == parse_end_of_quote(L, syn, window)
        em == parse_end_of_multi_line(L, syn, window)
        oq == parse_quote(L, syn, window)
        om == parse_multi_line_comment(L, syn, window)
    IN  IF eq.hit THEN Step(eq.syn, eq.skip, TRUE, FALSE)
        ELSE IF em.hit THEN Step(em.syn, em.skip, TRUE, FALSE)
        ELSE IF syn.quote # NoQuote THEN Step(syn, 1, FALSE, FALSE)
        ELSE IF oq.hit THEN Step(oq.syn, oq.skip, FALSE, FALSE)
        ELSE IF om.hit THEN Step(om.syn, om.skip, FALSE, FALSE)
        ELSE IF parse_line_comment(L, syn, window)
             THEN Step(syn, 1, TRUE, TRUE)
        ELSE Step(syn, 1, FALSE, FALSE)

\* The 'window loop from byte i (1-based) of the line: the scan state and
\* ended_with_comments when the loop leaves the line. A match of n bytes
\* sets skip to n - 1, which passes over the next n - 1 positions.
RECURSIVE WindowLoop(_, _, _, _, _)
WindowLoop(L, line, i, syn, ended) ==
    IF i > Len(line) THEN [syn |-> syn, ended_with_comments |-> ended]
    ELSE LET st == WindowStep(L, syn, SubSeq(line, i, Len(line)))
         IN  IF st.brk THEN [syn |-> st.syn, ended_with_comments |-> st.ended]
             ELSE WindowLoop(L, line, i + st.skip, st.syn, st.ended)

\* The positions of the line the 'window loop does not skip, from byte i,
\* each with the scan state the loop has there.
RECURSIVE Positions(_, _, _, _)
Positions(L, line, i, syn) ==
    IF i > Len(line) THEN {}
    ELSE LET st == WindowStep(L, syn, SubSeq(line, i, Len(line)))
         IN  {[i |-> i, syn |-> syn]}
               \cup (IF st.brk THEN {}
                     ELSE Positions(L, line, i + st.skip, st.syn))

\* Faulty variant: the doc-string disjunct without the test of the start of
\* the line.
DocRule_open_only(L, cfg, syn, line) ==
    /\ syn.quote # NoQuote
    /\ cfg = SomeTrue
    /\ syn.quote_is_doc_quote

\* The doc-string disjunct of is_comments.
DocRule(L, cfg, syn, line) ==
    /\ \/ syn.quote # NoQuote
       \/ \E d \in Range(L.doc_quotes) : starts_with(line, d.start)
    /\ treat_doc_strings_as_comments(cfg)
    /\ syn.quote_is_doc_quote

\* Faulty variant: the first disjunct without the test of the stack after
\* the line.
is_comments_ended_only(L, cfg, had_multi_line, w, line) ==
    \/ w.ended_with_comments /\ had_multi_line
    \/ is_match(any_comments(L), line) /\ w.syn.quote = NoQuote
    \/ DocRule(L, cfg, w.syn, line)

\* is_comments, from the state the walk left.
is_comments(L, cfg, had_multi_line, w, line) ==
    \/ (w.syn.stack # << >> \/ w.ended_with_comments) /\ had_multi_line
    \/ is_match(any_comments(L), line) /\ w.syn.quote = NoQuote
    \/ DocRule(L, cfg, w.syn, line)

\* Faulty variant: a blank line starts the scan state afresh.
ClassifyLine_blank_resets(L, cfg, syn, raw) ==
    LET line == ScanLine(L, raw)
    IN  IF IsBlankLine(line) THEN [ty |-> Blank, syn |-> NewSyntax]
        ELSE IF is_plain_mode(L, syn) /\ ~is_match(important_syntax(L), line)
        THEN [ty |-> IF StartsWithLineComment(L, line) THEN Comment ELSE Code,
              syn |-> syn]
        ELSE LET had_multi_line == syn.stack # << >>
                 w == WindowLoop(L, line, 1, syn, FALSE)
             IN  [ty |-> IF is_comments(L, cfg, had_multi_line, w, line)
                         THEN Comment ELSE Code,
                  syn |-> w.syn]

\* The body of the loop of annotate_lines for one line: the LineType that is
\* inserted and the scan state the next line starts with.
ClassifyLine(L, cfg, syn, raw) ==
    LET line == ScanLine(L, raw)
    IN  IF IsBlankLine(line) THEN [ty |-> Blank, syn |-> syn]
        ELSE IF is_plain_mode(L, syn) /\ ~is_match(important_syntax(L), line)
        THEN [ty |-> IF StartsWithLineComment(L, line) THEN Comment ELSE Code,
              syn |-> syn]
        ELSE LET had_multi_line == syn.stack # << >>
                 w == WindowLoop(L, line, 1, syn, FALSE)
             IN  [ty |-> IF is_comments(L, cfg, had_multi_line, w, line)
                         THEN Comment ELSE Code,
                  syn |-> w.syn]

\* The key annotate_lines inserts the line_num-th item of enumerate() under.
AnnotateKey(line_num) == line_num

\* annotate_lines over a whole iterator, from the given map and scan state.
RECURSIVE annotate_lines(_, _, _, _, _, _)
annotate_lines(L, cfg, ls, line_num, annots, syn) ==
    IF line_num >= Len(ls) THEN [annotations |-> annots, syn |-> syn]
    ELSE LET c == ClassifyLine(L, cfg, syn, ls[line_num + 1])
         IN  annotate_lines(L, cfg, ls, line_num + 1,
                            Insert(annots, AnnotateKey(line_num), c.ty), c.syn)

----------------------------------------------------------------------------
\* annotate_from_slice: the three paths

\* The key of the blank-language path.
BlankKey(num) == num

\* Faulty variant: every prefix line under one key.
PrefixKey_zero(num) == 0

\* The key of the prefix closure.
PrefixKey(num) == num

\* The closure mapped over the prefix lines: a one-entry map.
PrefixLineType(L, raw) ==
    LET line == ScanLine(L, raw)
    IN  IF IsBlankLine(line) THEN Blank
        ELSE IF StartsWithLineComment(L, line) THEN Comment
        ELSE Code

PrefixLineMap(L, num, raw) == Insert(EmptyMap, PrefixKey(num), PrefixLineType(L, raw))

\* Faulty variant: the split is made right before the match, without the
\* scan back to the line terminator.
SplitEnd_at_match(L, buf) ==
    LET start == earliest_find(important_syntax(L), buf)
    IN  IF start < 0 THEN -1
        ELSE LET ps == {p \in 0..start : buf[start - p + 1] = NL}
             IN  IF ps = {} \/ Min(ps) = 0 THEN -1 ELSE start - 1

\* Faulty variant: a match on the first line splits after the first byte
\* instead of giving None.
SplitEnd_first_line(L, buf) ==
    LET start == earliest_find(important_syntax(L), buf)
    IN  IF start < 0 THEN -1
        ELSE LET ps == {p \in 0..start : buf[start - p + 1] = NL}
             IN  IF ps = {} \/ Min(ps) = 0 THEN 0 ELSE start - Min(ps)

\* Faulty variant: the split is made at the line terminator that follows
\* the match, so the line of the match goes to the prefix.
SplitEnd_after_match(L, buf) ==
    LET start == earliest_find(important_syntax(L), buf)
    IN  IF start < 0 THEN -1
        ELSE LET ps == {i \in (start + 1)..Len(buf) : buf[i] = NL}
             IN  IF ps = {} THEN -1 ELSE Min(ps) - 1

\* The split point: Some(end) as the 0-based offset of the line terminator
\* before the line of the earliest important syntax, -1 for None (no match,
\* or no terminator before it).
SplitEnd(L, buf) ==
    LET start == earliest_find(important_syntax(L), buf)
    IN  IF start < 0 THEN -1
        ELSE LET ps == {p \in 0..start : buf[start - p + 1] = NL}
             IN  IF ps = {} \/ Min(ps) = 0 THEN -1 ELSE start - Min(ps)

\* text.split_at(end + 1)
skippable_text(buf, end) == SubSeq(buf, 1, end + 1)
rest(buf, end) == SubSeq(buf, end + 2, Len(buf))

----------------------------------------------------------------------------
\* Inputs

Paths == {"a.rs", "b.rs"}

\* The bytes that mean something to a language, with one byte of code ("a").
Alphabet(L) ==
    CASE L.name = "Text" -> {NL, SP, "a"}
      [] L.name = "Hash" -> {NL, SP, "a", "#"}
      [] L.name = "CLike" -> {NL, SP, "a", "/", "*", "\""}
      [] L.name = "Nested" -> {NL, "a", "/", "*"}
      [] L.name = "DocLang" -> {NL, SP, "a", "#", "\""}
      [] L.name = "Fortran" -> {NL, SP, "a", "!", "\""}

BoundedTexts(S, n) == UNION {[1..k -> S] : k \in 0..n}

\* tests/annotate.rs, lines 1-6, followed by a line of code.
BlockScenario ==
    <<"/", "/", SP, "c", "o", "m", "m", "e", "n", "t", NL, "/", "*", NL,
      NL, "c", "o", "m", "m", "e", "n", "t", SP, "l", "i", "n", "e", NL,
      NL, "*", "/", NL, "c", "o", "d", "e", "(", ")", ";">>

\* A documentation string closed on its line.
DocClosed ==
    <<"\"", "\"", "\"", "d", "\"", "\"", "\"">>

\* A documentation string left open, closed on the next line.
DocOpen ==
    <<"\"", "\"", "\"", "d", NL, "d", "\"", "\"", "\"", NL, "a">>

\* A documentation string followed by an ordinary string on the same line.
DocThenString ==
    <<"\"", "\"", "\"", "d", "\"", "\"", "\"", SP, "\"", "s", "\"">>

\* Two block-comment openers, then one closer.
OpenOpenClose ==
    <<"/", "*", "/", "*", "*", "/">>

\* Two block-comment openers, two closers, then code.
OpenOpenCloseClose ==
    <<"/", "*", "/", "*", "*", "/", NL, "*", "/", NL, "a">>

\* A line of code that ends in a line comment, before a block comment.
CodeThenComment ==
    <<"a", SP, "/", "/", SP, "x", NL, "/", "*">>

Scenarios(L) ==
    CASE L.name = "CLike" ->
            {BlockScenario, OpenOpenClose, OpenOpenCloseClose, CodeThenComment}
      [] L.name = "Nested" -> {OpenOpenClose, OpenOpenCloseClose}
      [] L.name = "DocLang" -> {DocClosed, DocOpen, DocThenString}
      [] OTHER -> {}

Inputs(L) == BoundedTexts(Alphabet(L), MaxLen) \cup Scenarios(L)

----------------------------------------------------------------------------
\* The program

NoResult == [tag |-> "none", path |-> ""]
Ok == [tag |-> "Ok", path |-> ""]
Err(p) == [tag |-> "Err", path |-> p]

Init ==
    /\ path \in Paths
    /\ lang \in Languages
    /\ text \in Inputs(lang)
    /\ config \in Configs
    /\ io = "none"
    /\ pc = "open"
    /\ result = NoResult
    /\ mode = "none"
    /\ lines = << >>
    /\ skippable = << >>
    /\ line_idx = 0
    /\ syntax = NewSyntax
    /\ annotations = EmptyMap
    /\ pending = {}
    /\ partials = {}
    /\ ret = EmptyMap

scan == <<mode, lines, skippable, line_idx, syntax, annotations, pending,
          partials, ret>>
input == <<path, text, lang, config>>

\* Faulty variant: the read error is dropped and the buffer is classified.
OnReadErr_ignored(p) == [pc |-> "slice", result |-> NoResult]

\* annotate_file: what follows a failure to open or to read the file.
OnOpenErr(p) == [pc |-> "returned", result |-> Err(p)]
OnReadErr(p) == [pc |-> "returned", result |-> Err(p)]

\* File::open(&path) fails: Err((e, path)).
OpenErr ==
    /\ pc = "open"
    /\ io' = "open_err"
    /\ pc' = OnOpenErr(path).pc
    /\ result' = OnOpenErr(path).result
    /\ UNCHANGED <<input, scan>>

OpenOk ==
    /\ pc = "open"
    /\ pc' = "read"
    /\ UNCHANGED <<input, io, result, scan>>

\* reader.read_to_end(&mut s) fails: Err((e, path)).
ReadErr ==
    /\ pc = "read"
    /\ io' = "read_err"
    /\ pc' = OnReadErr(path).pc
    /\ result' = OnReadErr(path).result
    /\ UNCHANGED <<input, scan>>

\* The buffer holds the decoded file; annotate_from_slice is called.
ReadOk ==
    /\ pc = "read"
    /\ io' = "ok"
    /\ pc' = "slice"
    /\ UNCHANGED <<input, result, scan>>

\* self.is_blank()
DispatchBlank ==
    /\ pc = "slice"
    /\ lang.is_blank
    /\ mode' = "blank"
    /\ lines' = LineIter(text)
    /\ pc' = "blank"
    /\ UNCHANGED <<input, io, result, skippable, line_idx, syntax,
                   annotations, pending, partials, ret>>

\* Some(end): the tail goes to annotate_lines with the fresh map and scan
\* state, the prefix lines go to the parallel bridge.
DispatchSplit ==
    /\ pc = "slice"
    /\ ~lang.is_blank
    /\ SplitEnd(lang, text) >= 0
    /\ mode' = "split"
    /\ lines' = LineIter(rest(text, SplitEnd(lang, text)))
    /\ skippable' = LineIter(skippable_text(text, SplitEnd(lang, text)))
    /\ pending' = {n \in 0..(Len(skippable') - 1) : TRUE}
    /\ pc' = "join"
    /\ UNCHANGED <<input, io, result, line_idx, syntax, annotations,
                   partials, ret>>

\* None: annotate_lines over all lines.
DispatchSeq ==
    /\ pc = "slice"
    /\ ~lang.is_blank
    /\ SplitEnd(lang, text) < 0
    /\ mode' = "seq"
    /\ lines' = LineIter(text)
    /\ pc' = "seq"
    /\ UNCHANGED <<input, io, result, skippable, line_idx, syntax,
                   annotations, pending, partials, ret>>

\* lines.enumerate().for_each: one line.
BlankStep ==
    /\ pc = "blank"
    /\ line_idx < Len(lines)
    /\ annotations' = Insert(annotations, BlankKey(line_idx), Code)
    /\ line_idx' = line_idx + 1
    /\ UNCHANGED <<input, io, pc, result, mode, lines, skippable, syntax,
                   pending, partials, ret>>

\* One iteration of the loop of annotate_lines.
LinesStep ==
    /\ line_idx < Len(lines)
    /\ LET c == ClassifyLine(lang, config, syntax, lines[line_idx + 1])
       IN  /\ annotations' = Insert(annotations, AnnotateKey(line_idx), c.ty)
           /\ syntax' = c.syn
    /\ line_idx' = line_idx + 1
    /\ UNCHANGED <<input, io, pc, result, mode, lines, skippable, pending,
                   partials, ret>>

\* The sequential scan of the whole file.
SeqStep == pc = "seq" /\ LinesStep

\* The scan of the tail, the first closure of rayon::join.
TailStep == pc = "join" /\ LinesStep

\* The blank-language path and the sequential path return the map.
Return ==
    /\ pc \in {"blank", "seq"}
    /\ line_idx = Len(lines)
    /\ ret' = annotations
    /\ result' = Ok
    /\ pc' = "returned"
    /\ UNCHANGED <<input, io, mode, lines, skippable, line_idx, syntax,
                   annotations, pending, partials>>

\* The map closure on one prefix line, taken from the bridge in any order.
PrefixMap ==
    /\ pc = "join"
    /\ \E num \in pending :
        /\ pending' = pending \ {num}
        /\ partials' = partials
              \cup {PrefixLineMap(lang, num, skippable[num + 1])}
    /\ UNCHANGED <<input, io, pc, result, mode, lines, skippable, line_idx,
                   syntax, annotations, ret>>

\* reduce: the identity, HashMap::new().
PrefixIdentity ==
    /\ pc = "join"
    /\ EmptyMap \notin partials
    /\ partials' = partials \cup {EmptyMap}
    /\ UNCHANGED <<input, io, pc, result, mode, lines, skippable, line_idx,
                   syntax, annotations, pending, ret>>

\* reduce: annotations.extend(map) on any two partial results.
PrefixReduce ==
    /\ pc = "join"
    /\ \E a \in partials : \E b \in partials \ {a} :
        partials' = (partials \ {a, b}) \cup {Extend(a, b)}
    /\ UNCHANGED <<input, io, pc, result, mode, lines, skippable, line_idx,
                   syntax, annotations, pending, ret>>

\* Both closures are done: annots_first.extend(annots_last), and return.
Join ==
    /\ pc = "join"
    /\ line_idx = Len(lines)
    /\ pending = {}
    /\ Cardinality(partials) = 1
    /\ \E annots_last \in partials : ret' = Extend(annotations, annots_last)
    /\ result' = Ok
    /\ pc' = "returned"
    /\ UNCHANGED <<input, io, mode, lines, skippable, line_idx, syntax,
                   annotations, pending, partials>>

Next ==
    \/ OpenErr
    \/ OpenOk
    \/ ReadErr
    \/ ReadOk
    \/ DispatchBlank
    \/ DispatchSplit
    \/ DispatchSeq
    \/ BlankStep
    \/ SeqStep
    \/ TailStep
    \/ Return
    \/ PrefixMap
    \/ PrefixIdentity
    \/ PrefixReduce
    \/ Join

Spec == Init /\ [][Next]_vars

----------------------------------------------------------------------------
\* Reference values the claims compare the program with

\* The physical lines of a buffer: its line terminators, and one more for a
\* last line that has none.
NumPhysicalLines(buf) ==
    Cardinality({i \in 1..Len(buf) : buf[i] = NL})
      + (IF buf # << >> /\ buf[Len(buf)] # NL THEN 1 ELSE 0)

\* annotate_lines run over all lines of the buffer from a fresh state.
SequentialMap(L, cfg, buf) ==
    annotate_lines(L, cfg, LineIter(buf), 0, EmptyMap, NewSyntax).annotations

\* The prefix maps folded one after the other in line order.
RECURSIVE PrefixInOrder(_, _, _)
PrefixInOrder(L, pre, n) ==
    IF n = 0 THEN EmptyMap
    ELSE Extend(PrefixInOrder(L, pre, n - 1), PrefixLineMap(L, n - 1, pre[n]))

\* The split path with the tail scanned first and the prefix folded in order.
SplitInOrder(L, cfg, buf) ==
    LET end == SplitEnd(L, buf)
        pre == LineIter(skippable_text(buf, end))
        tail == annotate_lines(L, cfg, LineIter(rest(buf, end)), 0, EmptyMap,
                               NewSyntax).annotations
    IN  Extend(tail, PrefixInOrder(L, pre, Len(pre)))

Returned == pc = "returned" /\ result = Ok
Scanning == pc \in {"seq", "join"}

----------------------------------------------------------------------------
\* Claims

\* C1: the returned map has as many entries as the buffer has physical
\* lines, on the blank-language, the sequential and the split path.
C1_SizeIsLineCount ==
    Returned => Cardinality(DOMAIN ret) = NumPhysicalLines(text)

\* C2: on the split path the merged map equals the map annotate_lines
\* gives when run over all lines of the file.
C2_SplitEqualsSequential ==
    (Returned /\ mode = "split") => ret = SequentialMap(lang, config, text)

\* C3: for a language with comment syntax the keys of the returned map are
\* 1..N for an N-line buffer.
C3_KeysOneToN ==
    (Returned /\ ~lang.is_blank) => DOMAIN ret = 1..NumPhysicalLines(text)

ExpectedBlock ==
    <<Comment, Comment, Blank, Comment, Blank, Comment, Code>>

\* C4: the seven lines of the block-comment scenario are classified
\* Comment, Comment, Blank, Comment, Blank, Comment, Code, whether the
\* first line has key 0 or key 1.
C4_BlockScenarioTypes ==
    (Returned /\ lang = CLike /\ text = BlockScenario) =>
        \E base \in {0, 1} :
            /\ base..(base + 6) \subseteq DOMAIN ret
            /\ \A k \in 1..7 : ret[base + k - 1] = ExpectedBlock[k]

\* The trimming rule of the claim: whitespace off both ends, and for a
\* column-sensitive language the line as it is, without its terminator.
RuleTrim(L, raw) ==
    IF L.is_fortran
    THEN IF raw # << >> /\ raw[Len(raw)] = NL
         THEN SubSeq(raw, 1, Len(raw) - 1) ELSE raw
    ELSE trim(raw)

\* C5 as stated: on every path and for every language, the LineType put in
\* a map for a line is Blank iff the line is empty under the trimming rule.
C5_BlankIffRuleEmpty ==
    /\ pc \in {"blank", "seq", "join"} =>
         \A k \in 0..(line_idx - 1) :
             annotations[k] = Blank <=> is_empty(RuleTrim(lang, lines[k + 1]))
    /\ \A m \in partials : \A num \in DOMAIN m :
             m[num] = Blank <=> is_empty(RuleTrim(lang, skippable[num + 1]))

\* C5 amended: on the sequential and the split path the LineType put in a
\* map for a line is Blank iff the line is empty once whitespace is trimmed
\* off both ends, column-sensitive languages included; on the
\* blank-language path every line is Code.
C5_BlankIffTrimmedEmpty ==
    /\ Scanning =>
         \A k \in 0..(line_idx - 1) :
             annotations[k] = Blank <=> is_empty(trim(lines[k + 1]))
    /\ pc = "blank" => \A k \in 0..(line_idx - 1) : annotations[k] = Code
    /\ \A m \in partials : \A num \in DOMAIN m :
             m[num] = Blank <=> is_empty(trim(skippable[num + 1]))

\* A column-sensitive language has scanned a line that holds blanks only.
C5_Witness ==
    /\ lang.is_fortran
    /\ Scanning
    /\ line_idx >= 1
    /\ SP \in Range(lines[line_idx])
    /\ annotations[line_idx - 1] = Blank

\* C6: on the split path the returned map does not depend on the schedule:
\* it is the map of the schedule that scans the tail first and folds the
\* prefix lines in order.
C6_ScheduleIndependent ==
    (Returned /\ mode = "split") => ret = SplitInOrder(lang, config, text)

\* The split path has returned, with two prefix lines of different types.
C6_Witness ==
    /\ Returned
    /\ mode = "split"
    /\ \E i, j \in 1..Len(skippable) :
          PrefixLineType(lang, skippable[i]) # PrefixLineType(lang, skippable[j])

\* C7: every key of the prefix classification is smaller than every key of
\* the tail scan, so the merge overwrites nothing.
C7_PrefixKeysBelowTailKeys ==
    (pc = "join" /\ line_idx = Len(lines) /\ pending = {}
       /\ Cardinality(partials) = 1) =>
        \A annots_last \in partials : \A k \in DOMAIN annots_last :
            \A t \in DOMAIN annotations : k < t

\* C8: unset and Some(false) classify alike: the line about to be scanned
\* gets the same LineType and leaves the same scan state under both, and so
\* does the whole buffer.
C8_NoneIsSomeFalse ==
    /\ (Scanning /\ line_idx < Len(lines)) =>
          ClassifyLine(lang, None, syntax, lines[line_idx + 1])
            = ClassifyLine(lang, SomeFalse, syntax, lines[line_idx + 1])
    /\ pc = "slice" =>
          annotate_lines(lang, None, LineIter(text), 0, EmptyMap, NewSyntax)
            = annotate_lines(lang, SomeFalse, LineIter(text), 0, EmptyMap,
                             NewSyntax)

\* The option is unset and the line about to be scanned is one that
\* Some(true) classifies differently.
C8_Witness ==
    /\ Scanning
    /\ line_idx < Len(lines)
    /\ config = None
    /\ ClassifyLine(lang, SomeTrue, syntax, lines[line_idx + 1]).ty
         # ClassifyLine(lang, None, syntax, lines[line_idx + 1]).ty

\* C9: annotate_file either fails to open or read the file, and returns the
\* error with the path it was given without classifying anything, or it
\* returns a map; no error comes from classifying the buffer.
C9_TwoOutcomes ==
    /\ io \in {"open_err", "read_err"} =>
          /\ pc = "returned"
          /\ result = Err(path)
          /\ mode = "none"
          /\ line_idx = 0
          /\ annotations = EmptyMap
          /\ partials = {}
          /\ ret = EmptyMap
    /\ result.tag = "Err" => io \in {"open_err", "read_err"}
    /\ (pc = "returned" /\ io = "ok") => result = Ok
    /\ pc \in {"slice", "blank", "seq", "join"} => result = NoResult

\* A map is returned for a buffer whose block comment or quote is never
\* closed.
C9_Witness ==
    /\ Returned
    /\ io = "ok"
    /\ (syntax.stack # << >> \/ syntax.quote # NoQuote)

\* The line about to be scanned begins with a doc-quote opener, with no
\* block comment and no quote open.
DocLineNext ==
    /\ Scanning
    /\ line_idx < Len(lines)
    /\ syntax.stack = << >>
    /\ syntax.quote = NoQuote
    /\ ~IsBlankLine(ScanLine(lang, lines[line_idx + 1]))
    /\ \E d \in Range(lang.doc_quotes) :
          starts_with(ScanLine(lang, lines[line_idx + 1]), d.start)

\* C10 as stated: with Some(true) such a line is Comment.
C10_DocLineIsComment ==
    [][(DocLineNext /\ config = SomeTrue /\ line_idx' = line_idx + 1)
          => annotations'[line_idx] = Comment]_vars

\* C10 amended: with Some(true) such a line is Comment when the last quote
\* opened on it is a doc-quote, open or closed at the end of the line; with
\* the option unset or Some(false) it is Comment only if it holds a comment
\* marker.
C10_DocLineIsCommentIfFlagged ==
    [][(DocLineNext /\ line_idx' = line_idx + 1) =>
          /\ (config = SomeTrue /\ syntax'.quote_is_doc_quote)
                => annotations'[line_idx] = Comment
          /\ (config # SomeTrue /\ annotations'[line_idx] = Comment)
                => is_match(any_comments(lang),
                            ScanLine(lang, lines[line_idx + 1]))]_vars

\* With Some(true), a first line that opens and closes a doc-quote has been
\* scanned.
C10_Witness ==
    /\ Scanning
    /\ config = SomeTrue
    /\ line_idx = 1
    /\ \E d \in Range(lang.doc_quotes) :
          /\ starts_with(ScanLine(lang, lines[1]), d.start)
          /\ Len(ScanLine(lang, lines[1])) > Len(d.start)
    /\ syntax.quote = NoQuote
    /\ syntax.quote_is_doc_quote
    /\ annotations[0] = Comment

----------------------------------------------------------------------------
\* The line annotate_lines scans next

HasNextLine == Scanning /\ line_idx < Len(lines)

NextLine == ScanLine(lang, lines[line_idx + 1])

\* The line takes the plain-mode fast path.
FastPath(line) ==
    is_plain_mode(lang, syntax) /\ ~is_match(important_syntax(lang), line)

\* The next line goes through the 'window loop.
Walked ==
    /\ HasNextLine
    /\ ~IsBlankLine(NextLine)
    /\ ~FastPath(NextLine)

\* The positions the loop visits on the next line, with the scan states.
NextPositions == Positions(lang, NextLine, 1, syntax)

WindowAt(p) == SubSeq(NextLine, p.i, Len(NextLine))

\* The window begins with the closer on top of the stack.
AtCloser(p) ==
    /\ p.syn.quote = NoQuote
    /\ p.syn.stack # << >>
    /\ starts_with(WindowAt(p), p.syn.stack[Len(p.syn.stack)])

\* The window begins with a block-comment opener and not with the closer.
AtOpener(p) ==
    /\ p.syn.quote = NoQuote
    /\ ~AtCloser(p)
    /\ FirstStart(lang.multi_line_comments, WindowAt(p)) # 0
    /\ FirstStart(lang.quotes, WindowAt(p)) = 0
    /\ FirstStart(lang.doc_quotes, WindowAt(p)) = 0

C12_PrefixClosureIsFullClassifier ==
    \A m \in partials : \A num \in DOMAIN m :
        m[num] = ClassifyLine(lang, config, NewSyntax, skippable[num + 1]).ty

\* The first byte (1-based) at which some important syntax begins, 0 when
\* there is none.
LeftmostMatch(L, buf) ==
    LET at == {i \in 1..Len(buf) : \E p \in important_syntax(L) :
                  starts_with(SubSeq(buf, i, Len(buf)), p)}
    IN  IF at = {} THEN 0 ELSE Min(at)

RECURSIVE Flatten(_)
Flatten(ls) == IF ls = << >> THEN << >> ELSE Head(ls) \o Flatten(Tail(ls))

\* C13: on the split path the prefix is made of whole terminated lines
\* without important syntax, the tail begins with the line that holds the
\* earliest important syntax, and prefix lines followed by tail lines are the
\* lines of the file.
C13_SplitIsLinePartition ==
    mode = "split" =>
        /\ skippable # << >>
        /\ \A i \in 1..Len(skippable) :
              /\ skippable[i][Len(skippable[i])] = NL
              /\ ~is_match(important_syntax(lang), skippable[i])
        /\ skippable \o lines = LineIter(text)
        /\ Flatten(skippable) \o Flatten(lines) = text
        /\ lines # << >>
        /\ LeftmostMatch(lang, text) > Len(Flatten(skippable))
        /\ LeftmostMatch(lang, text) <= Len(Flatten(skippable)) + Len(lines[1])

\* The split path with two prefix lines and a match that is not at the
\* start of its line.
C13_Witness ==
    /\ mode = "split"
    /\ Len(skippable) >= 2
    /\ LeftmostMatch(lang, text) > Len(Flatten(skippable)) + 1

\* C14: for a non-blank language the split path is taken exactly when an
\* important syntax exists and a line terminator precedes the earliest one;
\* otherwise annotate_lines runs over all lines of the file and no prefix
\* work exists.
C14_SplitIffTerminatorBeforeMatch ==
    LET m == LeftmostMatch(lang, text)
        precedes == m > 0 /\ \E i \in 1..(m - 1) : text[i] = NL
    IN  (~lang.is_blank /\ mode # "none") =>
            /\ mode \in {"split", "seq"}
            /\ mode = "split" <=> precedes
            /\ mode = "seq" =>
                  /\ pc \in {"seq", "returned"}
                  /\ lines = LineIter(text)
                  /\ skippable = << >>
                  /\ pending = {}
                  /\ partials = {}

\* A file of several lines with important syntax on its first line, scanned
\* to the end on the sequential path.
C14_Witness ==
    /\ Returned
    /\ mode = "seq"
    /\ LeftmostMatch(lang, text) > 0
    /\ Len(lines) >= 2

\* C15: a scan from a fresh state is still clean as long as no scanned line
\* holds important syntax, so the scan of the prefix lines ends clean; the
\* tail scan has given each scanned tail line the LineType, and has reached
\* the scan state, of annotate_lines run from a fresh state over the prefix
\* lines followed by those tail lines.
C15_TailScanEqualsSequentialScan ==
    /\ (Scanning /\ \A k \in 1..line_idx :
                        ~is_match(important_syntax(lang), lines[k]))
          => syntax = NewSyntax
    /\ mode = "split" =>
          LET P == Len(skippable)
              pre == annotate_lines(lang, config, skippable, 0, EmptyMap,
                                    NewSyntax)
              full == annotate_lines(lang, config,
                                     skippable \o SubSeq(lines, 1, line_idx),
                                     0, EmptyMap, NewSyntax)
          IN  /\ pre.syn = NewSyntax
              /\ full.syn = syntax
              /\ \A k \in 1..line_idx :
                    full.annotations[AnnotateKey(P + k - 1)]
                        = annotations[AnnotateKey(k - 1)]

\* The tail scan has ended with a scan state that is not clean, after
\* several tail lines.
C15_Witness ==
    /\ mode = "split"
    /\ pc = "join"
    /\ Len(lines) >= 2
    /\ line_idx = Len(lines)
    /\ syntax # NewSyntax

\* Not both an open quote and an open block comment.
Exclusive(syn) == syn.quote = NoQuote \/ syn.stack = << >>

StateAfter(k) ==
    annotate_lines(lang, config, SubSeq(lines, 1, k), 0, EmptyMap,
                   NewSyntax).syn

\* C18: a scanned line that began and ended with a non-empty stack is
\* Comment when it is not blank and Blank when it is, under every Config;
\* so behind a block comment that stays open no line is Code.
C18_InsideBlockIsComment ==
    mode \in {"seq", "split"} =>
        \A k \in 1..line_idx :
            (StateAfter(k - 1).stack # << >> /\ StateAfter(k).stack # << >>)
                => annotations[AnnotateKey(k - 1)]
                     = IF is_empty(trim(lines[k])) THEN Blank ELSE Comment

\* The scan has reached the end of the file inside a block comment opened
\* on an earlier line, and the last line holds no comment marker at all.
C18_Witness ==
    /\ Scanning
    /\ line_idx = Len(lines)
    /\ line_idx >= 2
    /\ StateAfter(line_idx - 1).stack # << >>
    /\ syntax.stack # << >>
    /\ ~is_empty(trim(lines[line_idx]))
    /\ ~is_match(any_comments(lang), lines[line_idx])
    /\ annotations[AnnotateKey(line_idx - 1)] = Comment

\* The loop reaches syntax.parse_line_comment(window) with this state and
\* window, and it matches.
LineCommentMatched(syn, window) ==
    /\ ~parse_end_of_quote(lang, syn, window).hit
    /\ ~parse_end_of_multi_line(lang, syn, window).hit
    /\ syn.quote = NoQuote
    /\ ~parse_quote(lang, syn, window).hit
    /\ ~parse_multi_line_comment(lang, syn, window).hit
    /\ parse_line_comment(lang, syn, window)

\* C19: when a line-comment prefix is matched at a position of the next
\* line, the walk of that line ends with the scan state it had at that
\* position and with ended_with_comments set, whatever follows on the line.
C19_LineCommentStopsScan ==
    Walked =>
        \A p \in NextPositions :
            LineCommentMatched(p.syn, WindowAt(p)) =>
                LET w == WindowLoop(lang, NextLine, 1, syntax, FALSE)
                IN  /\ w.syn = p.syn
                    /\ w.ended_with_comments
                    /\ ClassifyLine(lang, config, syntax,
                                    lines[line_idx + 1]).syn = p.syn

\* The first line has been scanned; a line comment was matched on it with
\* important syntax behind the match, and the scan state is still fresh.
C19_Witness ==
    /\ Scanning
    /\ line_idx = 1
    /\ syntax = NewSyntax
    /\ LET line == ScanLine(lang, lines[1])
       IN  \E p \in Positions(lang, line, 1, NewSyntax) :
              /\ LineCommentMatched(p.syn, SubSeq(line, p.i, Len(line)))
              /\ is_match(important_syntax(lang),
                          SubSeq(line, p.i + 1, Len(line)))

\* C20: a step of annotate_lines on a blank line, or on a line taken by the
\* plain-mode fast path, leaves the scan state as it was.
C20_NoWalkNoStateChange ==
    [][(/\ HasNextLine
        /\ line_idx' = line_idx + 1
        /\ IsBlankLine(NextLine) \/ FastPath(NextLine))
          => syntax' = syntax]_vars

\* A blank line has been scanned inside an open block comment or quote.
C20_Witness ==
    /\ Scanning
    /\ line_idx >= 2
    /\ IsBlankLine(ScanLine(lang, lines[line_idx]))
    /\ syntax # NewSyntax

====
